---- MODULE Spec2Model ----
(***************************************************************************)
(* A model of halo-node-sdk (src/src/index.ts): the 402 recovery protocol  *)
(* of haloSystem / HaloAutoHandler and the manual HaloPaymentTools.        *)
(*                                                                         *)
(* JavaScript values are records [t, v]: t is the typeof tag, v the        *)
(* content.  Texts (error messages, JSON documents) are sequences of       *)
(* tokens, so that the regular expression of strategy C and JSON.parse are *)
(* computed on the text rather than assumed.                               *)
(***************************************************************************)
EXTENDS Integers, Sequences, FiniteSets, TLC

(***************************************************************************)
(* Bounds of the model.                                                    *)
(***************************************************************************)
\* the clock may advance by 0..MaxAdvance ms between two reads of Date.now()
MaxAdvance == 1
\* ethers.randomBytes(32) draws one of NumNonces values
NumNonces == 2
\* the epoch second in which the run starts (the clock starts 1 ms before
\* the end of that second)
StartSecond == 100

(***************************************************************************)
(* Program constants.                                                      *)
(***************************************************************************)
PaymentRequiredStatus == 402
ChainId == 8453
ValidAfterSkew == 60
ValidBeforeWindow == 3600
MsPerSecond == 1000
X402Version == 2

(***************************************************************************)
(* JavaScript values.                                                      *)
(***************************************************************************)
Undefined == [t |-> "undefined", v |-> 0]
Num(n) == [t |-> "number", v |-> n]
\* the decimal string of n
NumStr(n) == [t |-> "string", v |-> n]
\* a non-empty string that is no integer literal ("abc")
NotNumeric == [t |-> "string", v |-> -1]

\* ToBoolean: undefined and 0 are falsy, every non-empty string is truthy
Truthy(x) ==
    CASE x.t = "undefined" -> FALSE
      [] x.t = "number" -> x.v # 0
      [] OTHER -> TRUE

\* a || b
OrElse(a, b) == IF Truthy(a) THEN a ELSE b

\* BigInt(x): [ok, v], or the error it throws
BigIntOf(x) ==
    CASE x.t = "undefined" -> [ok |-> FALSE, v |-> 0, error |-> "TypeError"]
      [] x.t = "string" /\ x.v < 0 -> [ok |-> FALSE, v |-> 0, error |-> "SyntaxError"]
      [] OTHER -> [ok |-> TRUE, v |-> x.v, error |-> ""]

(***************************************************************************)
(* Payment terms and JSON documents.                                       *)
(***************************************************************************)
\* JSON literals of a member: absent, a string literal, a number literal
LitAbsent == [lit |-> "absent", n |-> 0]
LitStr(n) == [lit |-> "string", n |-> n]
LitNum(n) == [lit |-> "number", n |-> n]

\* JSON.parse of one member's literal
ParseLiteral(l) ==
    CASE l.lit = "absent" -> Undefined
      [] l.lit = "string" -> [t |-> "string", v |-> l.n]
      [] OTHER -> Num(l.n)

\* the member list of a terms object, as written in a JSON text
MemberText(amount, maxAmountRequired, payTo, version) ==
    [amount |-> amount, maxAmountRequired |-> maxAmountRequired, payTo |-> payTo,
     asset |-> "0xUSDC", x402Version |-> version]

NoMembers ==
    [amount |-> LitAbsent, maxAmountRequired |-> LitAbsent, payTo |-> "",
     asset |-> "", x402Version |-> LitAbsent]

\* a parsed terms object
ParseMembers(m) ==
    [amount |-> ParseLiteral(m.amount),
     maxAmountRequired |-> ParseLiteral(m.maxAmountRequired),
     payTo |-> m.payTo,
     asset |-> m.asset,
     x402Version |-> ParseLiteral(m.x402Version)]

NoTerms == ParseMembers(NoMembers)

\* tokens of a text
Ch(c) == [k |-> "ch", c |-> c, m |-> NoMembers]
Members(m) == [k |-> "members", c |-> "", m |-> m]

\* JSON texts: {members}, {"accepts":[{members}],"resource":{"description":d}},
\* {"accepts":[]}, null, and a text that is no JSON
DirectText(m) == <<Ch("{"), Members(m), Ch("}")>>
AcceptsText(m, d) ==
    <<Ch("{"), Ch("accepts:"), Ch("["), Ch("{"), Members(m), Ch("}"), Ch("]"),
      Ch(","), Ch("resource:"), Ch(d), Ch("}")>>
EmptyAcceptsText == <<Ch("{"), Ch("accepts:"), Ch("["), Ch("]"), Ch("}")>>
NullText == <<Ch("null")>>
GarbageText == <<Ch("garbage")>>

\* parsed JSON values: kind is "object" or "null"; an object has its own
\* members (self), and possibly an accepts array and a resource description
JsObject(self, hasAccepts, accepts, description) ==
    [kind |-> "object", self |-> self, hasAccepts |-> hasAccepts,
     accepts |-> accepts, description |-> description]
JsNull ==
    [kind |-> "null", self |-> NoTerms, hasAccepts |-> FALSE,
     accepts |-> <<>>, description |-> ""]
\* "no value": the variable reqData before any strategy has assigned it
JsUndefined ==
    [kind |-> "undefined", self |-> NoTerms, hasAccepts |-> FALSE,
     accepts |-> <<>>, description |-> ""]

IsCh(tok, c) == tok.k = "ch" /\ tok.c = c

\* JSON.parse(text): [ok, value]; ok = FALSE is a SyntaxError
JSONParse(text) ==
    CASE Len(text) = 3 /\ IsCh(text[1], "{") /\ text[2].k = "members" /\ IsCh(text[3], "}")
           -> [ok |-> TRUE,
               value |-> JsObject(ParseMembers(text[2].m), FALSE, <<>>, "")]
      [] Len(text) = 11 /\ IsCh(text[1], "{") /\ IsCh(text[2], "accepts:")
            /\ IsCh(text[3], "[") /\ IsCh(text[4], "{") /\ text[5].k = "members"
            /\ IsCh(text[6], "}") /\ IsCh(text[7], "]") /\ IsCh(text[8], ",")
            /\ IsCh(text[9], "resource:") /\ text[10].k = "ch" /\ IsCh(text[11], "}")
           -> [ok |-> TRUE,
               value |-> JsObject(NoTerms, TRUE, <<ParseMembers(text[5].m)>>, text[10].c)]
      [] text = EmptyAcceptsText
           -> [ok |-> TRUE, value |-> JsObject(NoTerms, TRUE, <<>>, "")]
      [] text = NullText -> [ok |-> TRUE, value |-> JsNull]
      [] OTHER -> [ok |-> FALSE, value |-> JsUndefined]

\* ToBoolean of a parsed value or of an unassigned variable
Present(x) == x.kind = "object"

(***************************************************************************)
(* The failure thrown by the wrapped method: the fields the code reads.    *)
(*   response.status, response.headers (a Headers object with get(), or a  *)
(*   plain object), status, message, errorDetails.                         *)
(***************************************************************************)
NoHeader == [present |-> FALSE, base64 |-> FALSE, text |-> <<>>]
\* a header holding the base64 of a text, or the text itself (not encoded)
Base64Header(text) == [present |-> TRUE, base64 |-> TRUE, text |-> text]
RawHeader(text) == [present |-> TRUE, base64 |-> FALSE, text |-> text]

NoHeaders == [shape |-> "none", paymentRequired |-> NoHeader]
NoResponse == [present |-> FALSE, status |-> Undefined, headers |-> NoHeaders]

NoMessage == [defined |-> FALSE, text |-> <<>>]
Message(text) == [defined |-> TRUE, text |-> text]

NoDetails == [defined |-> FALSE, isArray |-> FALSE, elems |-> <<>>]
Details(elems) == [defined |-> TRUE, isArray |-> TRUE, elems |-> elems]

\* Buffer.from(header, 'base64').toString(): never throws; a header that is
\* not base64 decodes to bytes that are no JSON
Base64Decode(header) == IF header.base64 THEN header.text ELSE GarbageText

\* String.prototype.includes on a message
Includes(message, word) ==
    message.defined /\ \E i \in 1..Len(message.text) : IsCh(message.text[i], word)

\* message.match(/\[(\{.*\})\]/): the leftmost "[{", then the longest run
\* that ends in "}]"; the result is capture group 1
MatchStarts(text) ==
    {i \in 1..Len(text) :
        /\ IsCh(text[i], "[")
        /\ i + 1 <= Len(text) /\ IsCh(text[i + 1], "{")
        /\ \E j \in (i + 2)..(Len(text) - 1) : IsCh(text[j], "}") /\ IsCh(text[j + 1], "]")}
SetMin(S) == CHOOSE x \in S : \A y \in S : x <= y
SetMax(S) == CHOOSE x \in S : \A y \in S : x >= y
RegexMatch(text) ==
    IF MatchStarts(text) = {} THEN [matched |-> FALSE, group |-> <<>>]
    ELSE LET i == SetMin(MatchStarts(text))
             j == SetMax({k \in (i + 2)..(Len(text) - 1) :
                            IsCh(text[k], "}") /\ IsCh(text[k + 1], "]")})
         IN [matched |-> TRUE, group |-> SubSeq(text, i + 1, j)]

(***************************************************************************)
(* proxyHandler.get: classification of a caught failure (lines 148-151).   *)
(***************************************************************************)
\* error.response?.status || error.status || 0
StatusOf(error) ==
    OrElse(OrElse(IF error.response.present THEN error.response.status ELSE Undefined,
                  error.status),
           Num(0))

\* a classification that takes every HTTP error status for payment-required
IsPaymentRequiredAnyStatus(error) ==
    \/ StatusOf(error).v >= 400
    \/ Includes(error.message, "402")
    \/ Includes(error.message, "Payment Required")

\* status === 402 || message?.includes("402") || message?.includes("Payment Required")
IsPaymentRequired(error) ==
    \/ StatusOf(error) = Num(PaymentRequiredStatus)
    \/ Includes(error.message, "402")
    \/ Includes(error.message, "Payment Required")

(***************************************************************************)
(* autoRecover, step 1: the three extraction strategies (lines 178-215).   *)
(* Each takes the value of reqData so far and returns [threw, reqData].    *)
(***************************************************************************)
\* headers?.get?.('payment-required') || headers?.['payment-required']
HeaderOf(error) ==
    LET h == error.response.headers
        viaGet == IF error.response.present /\ h.shape = "accessor"
                  THEN h.paymentRequired ELSE NoHeader
        viaIndex == IF error.response.present /\ h.shape = "plain"
                    THEN h.paymentRequired ELSE NoHeader
    IN IF viaGet.present THEN viaGet ELSE viaIndex

StrategyA(error) ==
    LET header == HeaderOf(error)
        parsed == JSONParse(Base64Decode(header))
    IN IF header.present /\ parsed.ok THEN parsed.value ELSE JsUndefined

StrategyB(reqData, error) ==
    IF ~Present(reqData) /\ error.errorDetails.defined /\ error.errorDetails.isArray
          /\ Len(error.errorDetails.elems) > 0
    THEN LET first == error.errorDetails.elems[1]
         IN CASE first.kind # "object" -> [threw |-> "TypeError", reqData |-> first]
              [] first.hasAccepts -> [threw |-> "", reqData |-> first]
              [] Truthy(first.self.x402Version) -> [threw |-> "", reqData |-> first]
              [] OTHER -> [threw |-> "", reqData |-> JsNull]
    ELSE [threw |-> "", reqData |-> reqData]

StrategyC(reqData, error) ==
    IF ~Present(reqData) /\ error.message.defined /\ Len(error.message.text) > 0
    THEN LET jsonMatch == RegexMatch(error.message.text)
             parsed == JSONParse(jsonMatch.group)
         IN IF jsonMatch.matched /\ parsed.ok THEN parsed.value ELSE reqData
    ELSE reqData

\* step 1 without the check of line 212
ExtractRequirementsUnchecked(error) ==
    LET b == StrategyB(StrategyA(error), error)
    IN [threw |-> b.threw, reqData |-> StrategyC(b.reqData, error)]

\* the whole of step 1: [threw, reqData]; "ExtractionFailure" is
\* Error("Could not extract payment requirements from 402 error")
ExtractRequirements(error) ==
    LET b == StrategyB(StrategyA(error), error)
        c == StrategyC(b.reqData, error)
    IN CASE b.threw # "" -> [threw |-> b.threw, reqData |-> b.reqData]
         [] ~Present(c) -> [threw |-> "ExtractionFailure", reqData |-> c]
         [] OTHER -> [threw |-> "", reqData |-> c]

(***************************************************************************)
(* autoRecover, lines 217-219: the requirement, the resource description   *)
(* and the amount shown to the judge.                                      *)
(***************************************************************************)
NoRequirement == [defined |-> FALSE, terms |-> NoTerms]
Requirement(terms) == [defined |-> TRUE, terms |-> terms]

\* reqData.accepts ? reqData.accepts[0] : reqData
RequirementOf(reqData) ==
    IF reqData.hasAccepts
    THEN IF Len(reqData.accepts) > 0 THEN Requirement(reqData.accepts[1])
         ELSE NoRequirement
    ELSE Requirement(reqData.self)

\* requirement.amount || requirement.maxAmountRequired
AmountField(requirement) ==
    OrElse(requirement.terms.amount, requirement.terms.maxAmountRequired)

(***************************************************************************)
(* Configuration and construction (lines 25-32, 132-136, 170-174).         *)
(* A key is a string; "" is an absent key.                                 *)
(***************************************************************************)
Configs == [privateKey : {"", "0xConfigKey"}]
Environments == [HALO_WALLET_PRIVATE_KEY : {"", "0xEnvKey"}]

\* a || b on strings
OrKey(a, b) == IF a # "" THEN a ELSE b

\* new ethers.Wallet(key).address
AddressOf(key) == IF key = "0xConfigKey" THEN "0xConfigAccount" ELSE "0xEnvAccount"

NoWallet == [present |-> FALSE, address |-> ""]

\* new HaloPaymentTools(config): the wallet exists iff config.privateKey is set
HaloPaymentTools(cfg) ==
    [wallet |-> IF cfg.privateKey # ""
                THEN [present |-> TRUE, address |-> AddressOf(cfg.privateKey)]
                ELSE NoWallet]

\* a handler that auto-approves only for a key given in the configuration object
HaloAutoHandlerDirectKeyOnly(cfg, environment) ==
    LET pk == OrKey(cfg.privateKey, environment.HALO_WALLET_PRIVATE_KEY)
    IN [tools |-> HaloPaymentTools([cfg EXCEPT !.privateKey = pk]),
        autoApprove |-> cfg.privateKey # ""]

\* new HaloAutoHandler(config)
HaloAutoHandler(cfg, environment) ==
    LET pk == OrKey(cfg.privateKey, environment.HALO_WALLET_PRIVATE_KEY)
    IN [tools |-> HaloPaymentTools([cfg EXCEPT !.privateKey = pk]),
        autoApprove |-> pk # ""]

\* haloSystem(model, config): throws when no key is found, else the proxy
haloSystem(cfg, environment) ==
    LET pk == OrKey(cfg.privateKey, environment.HALO_WALLET_PRIVATE_KEY)
    IN IF pk = ""
       THEN [built |-> FALSE, handler |-> HaloAutoHandler(cfg, environment)]
       ELSE [built |-> TRUE, handler |-> HaloAutoHandler(cfg, environment)]

(***************************************************************************)
(* signPayment (lines 65-121).                                             *)
(***************************************************************************)
NoJob ==
    [domain |-> [name |-> "", version |-> "", chainId |-> 0, verifyingContract |-> ""],
     message |-> [from |-> "", to |-> "", value |-> 0, validAfter |-> 0,
                  validBefore |-> 0, nonce |-> 0],
     readAfter |-> 0, readBefore |-> 0]

\* Math.floor(Date.now() / 1000)
Seconds(ms) == ms \div MsPerSecond

\* signPayment without the check of line 66
SignPaymentPrepareUnchecked(toolset, requirement, now1, now2, nonce) ==
    LET amount == BigIntOf(AmountField(requirement))
    IN IF ~amount.ok THEN [threw |-> amount.error, job |-> NoJob]
       ELSE [threw |-> "",
             job |-> [domain |-> [name |-> "USD Coin", version |-> "2",
                                  chainId |-> ChainId,
                                  verifyingContract |-> requirement.terms.asset],
                      message |-> [from |-> toolset.wallet.address,
                                   to |-> requirement.terms.payTo,
                                   value |-> amount.v,
                                   validAfter |-> Seconds(now1) - ValidAfterSkew,
                                   validBefore |-> Seconds(now2) + ValidBeforeWindow,
                                   nonce |-> nonce],
                      readAfter |-> now1, readBefore |-> now2]]

\* lines 66-99, up to the await of signTypedData: [threw, job].  now1 and
\* now2 are the two values Date.now() returns, nonce what randomBytes returns.
\* The requirements of the model carry no `extra`, so the domain takes the
\* defaults of lines 75-76.
SignPaymentPrepare(toolset, requirement, now1, now2, nonce) ==
    LET amount == BigIntOf(AmountField(requirement))
    IN CASE ~toolset.wallet.present -> [threw |-> "NoSigningKey", job |-> NoJob]
         [] ~amount.ok -> [threw |-> amount.error, job |-> NoJob]
         [] OTHER ->
              [threw |-> "",
               job |-> [domain |-> [name |-> "USD Coin", version |-> "2",
                                    chainId |-> ChainId,
                                    verifyingContract |-> requirement.terms.asset],
                        message |-> [from |-> toolset.wallet.address,
                                     to |-> requirement.terms.payTo,
                                     value |-> amount.v,
                                     validAfter |-> Seconds(now1) - ValidAfterSkew,
                                     validBefore |-> Seconds(now2) + ValidBeforeWindow,
                                     nonce |-> nonce],
                        readAfter |-> now1, readBefore |-> now2]]

\* wallet.signTypedData(domain, types, message): the signature binds the
\* signer, the domain and the message
SignTypedData(toolset, job) ==
    [signer |-> toolset.wallet.address, domain |-> job.domain, message |-> job.message]

NoEnvelope ==
    [x402Version |-> 0, accepted |-> NoRequirement,
     payload |-> [signature |-> SignTypedData([wallet |-> NoWallet], NoJob),
                  authorization |-> [from |-> "", to |-> "", value |-> Undefined,
                                     validAfter |-> Undefined, validBefore |-> Undefined,
                                     nonce |-> 0]]]

\* lines 104-120: the envelope (the base64 of its JSON text is what travels)
BuildEnvelope(toolset, requirement, job) ==
    [x402Version |-> X402Version,
     accepted |-> requirement,
     payload |-> [signature |-> SignTypedData(toolset, job),
                  authorization |-> [from |-> toolset.wallet.address,
                                     to |-> requirement.terms.payTo,
                                     value |-> NumStr(job.message.value),
                                     validAfter |-> NumStr(job.message.validAfter),
                                     validBefore |-> NumStr(job.message.validBefore),
                                     nonce |-> job.message.nonce]]]

(***************************************************************************)
(* consultJudge (lines 37-60): the decision read from the reply.  A reply  *)
(* text is a sequence of characters.                                       *)
(***************************************************************************)
\* the body of the advisory response: JSON without the text path, JSON with
\* the text, or something response.json() cannot parse
NoReply == [json |-> TRUE, hasText |-> FALSE, text |-> <<>>]
Reply(text) == [json |-> TRUE, hasText |-> TRUE, text |-> text]
NotJsonReply == [json |-> FALSE, hasText |-> FALSE, text |-> <<>>]

IsSpace(c) == c \in {" ", "\n"}

\* String.prototype.trim
Trim(text) ==
    LET kept == {i \in 1..Len(text) : ~IsSpace(text[i])}
    IN IF kept = {} THEN <<>> ELSE SubSeq(text, SetMin(kept), SetMax(kept))

LowerCaseLetters ==
    <<"a", "b", "c", "d", "e", "f", "g", "h", "i", "j", "k", "l", "m",
      "n", "o", "p", "q", "r", "s", "t", "u", "v", "w", "x", "y", "z">>
UpperCaseLetters ==
    <<"A", "B", "C", "D", "E", "F", "G", "H", "I", "J", "K", "L", "M",
      "N", "O", "P", "Q", "R", "S", "T", "U", "V", "W", "X", "Y", "Z">>

\* the upper-case form of one character: every letter a-z is mapped, every
\* other character is left as it is
UpperChar(c) ==
    IF \E i \in 1..Len(LowerCaseLetters) : LowerCaseLetters[i] = c
    THEN UpperCaseLetters[CHOOSE i \in 1..Len(LowerCaseLetters) : LowerCaseLetters[i] = c]
    ELSE c

\* String.prototype.toUpperCase
ToUpperCase(text) == [i \in 1..Len(text) |-> UpperChar(text[i])]

\* String.prototype.includes on character sequences
IncludesText(text, word) ==
    \E i \in 1..(Len(text) - Len(word) + 1) : SubSeq(text, i, i + Len(word) - 1) = word

ErrorSentinel == <<"E", "R", "R", "O", "R">>
Yes == <<"Y", "E", "S">>

\* a decision that is the reply as it came
JudgeDecisionRaw(data) ==
    IF data.hasText /\ Len(data.text) > 0 THEN data.text ELSE ErrorSentinel

\* data.candidates?.[0]?.content?.parts?.[0]?.text?.trim().toUpperCase() || "ERROR"
JudgeDecision(data) ==
    IF data.hasText /\ Len(Trim(data.text)) > 0
    THEN ToUpperCase(Trim(data.text))
    ELSE ErrorSentinel

\* decision.includes("YES")
Approves(decision) == IncludesText(decision, Yes)

(***************************************************************************)
(* retry (lines 236-265).                                                  *)
(***************************************************************************)
StringArg(s) == [t |-> "string", text |-> s]
ObjectArg(s) == [t |-> "object", text |-> s]

UndefinedArg == [t |-> "undefined", text |-> ""]

\* args[0]
FirstArg(callArgs) == IF Len(callArgs) = 0 THEN UndefinedArg ELSE callArgs[1]

\* contents that wrap whatever the first argument is
RetryContentsAlwaysWrapped(callArgs) == [wrapped |-> TRUE, value |-> FirstArg(callArgs)]

\* lines 238-239: the request body built from args[0]; wrapped stands for
\* {contents: [{parts: [{text: value}]}]}
RetryContents(callArgs) ==
    IF FirstArg(callArgs).t = "string"
    THEN [wrapped |-> TRUE, value |-> FirstArg(callArgs)]
    ELSE [wrapped |-> FALSE, value |-> FirstArg(callArgs)]

\* lines 242-249: the request that carries the payment proof
RetryRequest(signature, callArgs) ==
    [paymentSignature |-> signature, body |-> RetryContents(callArgs)]

\* a top-level field of the JSON body of a response
NoField == [present |-> FALSE, v |-> ""]
Field(v) == [present |-> TRUE, v |-> v]

\* a response to the retry: candidates (hasText, text), usageMetadata and
\* response are the top-level fields of its JSON body
NoResponseYet == [ok |-> FALSE, status |-> 0, isJson |-> FALSE, hasText |-> FALSE,
                  text |-> "", usageMetadata |-> NoField, response |-> NoField,
                  raw |-> ""]

\* line 261: json.candidates?.[0]?.content?.parts?.[0]?.text || ""
ResponseTextOf(json) == IF json.hasText THEN json.text ELSE ""

\* lines 259-264: {response: {text: ...}, ...json}; the spread comes after the
\* wrapper, so a response field of the body replaces it
Reshape(json) ==
    [response |-> IF json.response.present
                  THEN [wrapper |-> FALSE, text |-> "", v |-> json.response.v]
                  ELSE [wrapper |-> TRUE, text |-> ResponseTextOf(json), v |-> ""],
     candidates |-> [hasText |-> json.hasText, text |-> json.text],
     usageMetadata |-> json.usageMetadata]

NoResult ==
    [response |-> [wrapper |-> FALSE, text |-> "", v |-> ""],
     candidates |-> [hasText |-> FALSE, text |-> ""],
     usageMetadata |-> NoField]

(***************************************************************************)
(* Inputs: the failures the wrapped method may throw.  The terms embedded  *)
(* in the three locations name different payees, so that the location a    *)
(* requirement came from can be told.                                      *)
(***************************************************************************)
HeaderMembers == MemberText(LitStr(1000000), LitAbsent, "0xHeaderPayee", LitAbsent)
MessageMembers == MemberText(LitAbsent, LitStr(2000000), "0xMessagePayee", LitAbsent)

\* the (amount, maxAmountRequired) members of the terms in errorDetails
DetailAmounts ==
    {<<LitStr(1000000), LitAbsent>>, <<LitAbsent, LitStr(2000000)>>,
     <<LitStr(1000000), LitStr(2000000)>>, <<LitNum(0), LitStr(2000000)>>,
     <<LitAbsent, LitAbsent>>, <<LitStr(-1), LitAbsent>>}

DetailMembers(a, version) == MemberText(a[1], a[2], "0xDetailsPayee", version)

HeaderValues ==
    {NoHeaders,
     [shape |-> "accessor",
      paymentRequired |-> Base64Header(AcceptsText(HeaderMembers, "header resource"))],
     [shape |-> "plain", paymentRequired |-> Base64Header(DirectText(HeaderMembers))],
     [shape |-> "plain", paymentRequired |-> RawHeader(DirectText(HeaderMembers))],
     [shape |-> "accessor", paymentRequired |-> Base64Header(NullText)]}

ResponseValues ==
    {NoResponse}
    \cup [present : {TRUE}, status : {Num(PaymentRequiredStatus), Num(500)},
          headers : HeaderValues]
    \cup {[present |-> TRUE, status |-> Undefined, headers |-> NoHeaders]}

StatusValues == {Undefined, Num(PaymentRequiredStatus), Num(500)}

DetailsValues ==
    {NoDetails, Details(<<>>), Details(<<JsNull>>),
     Details(<<JsObject(NoTerms, TRUE, <<>>, "")>>)}
    \cup {Details(<<JsObject(NoTerms, TRUE,
                             <<ParseMembers(DetailMembers(a, LitAbsent))>>,
                             "details resource")>>) : a \in DetailAmounts}
    \cup {Details(<<JsObject(ParseMembers(DetailMembers(a, v)), FALSE, <<>>, "")>>) :
            a \in {<<LitStr(1000000), LitAbsent>>, <<LitAbsent, LitAbsent>>},
            v \in {LitNum(X402Version)}}
    \cup {Details(<<JsObject(ParseMembers(DetailMembers(<<LitStr(1000000), LitAbsent>>,
                                                        LitAbsent)),
                             FALSE, <<>>, "")>>)}

MessageValues ==
    {NoMessage,
     Message(<<Ch("Internal error")>>),
     Message(<<Ch("got "), Ch("402")>>),
     Message(<<Ch("Payment Required")>>),
     Message(<<Ch("["), Ch("402"), Ch(" "), Ch("Payment Required"), Ch("]"), Ch(" "),
               Ch("[")>> \o AcceptsText(MessageMembers, "message resource") \o <<Ch("]")>>),
     Message(<<Ch("quota exceeded "), Ch("[")>> \o DirectText(MessageMembers)
               \o <<Ch("]")>>),
     Message(<<Ch("402"), Ch(" "), Ch("[")>> \o DirectText(MessageMembers) \o <<Ch(",")>>
               \o DirectText(MessageMembers) \o <<Ch("]")>>)}

Errors ==
    [response : ResponseValues, status : StatusValues, message : MessageValues,
     errorDetails : DetailsValues]

NoError ==
    [response |-> NoResponse, status |-> Undefined, message |-> NoMessage,
     errorDetails |-> NoDetails]

\* the arguments of a call of a wrapped method
ArgLists ==
    {<<StringArg("Hello, Halo!")>>,
     <<ObjectArg("native request"), StringArg("second argument")>>,
     <<>>}

\* the replies of the advisory endpoint
JudgeReplies ==
    {NoReply, NotJsonReply, Reply(<<>>), Reply(<<" ", "\n">>),
     Reply(<<"Y", "E", "S", ",", " ", "a", "p", "p", "r", "o", "v", "e", "d", ".">>),
     Reply(<<" ", "y", "e", "s", "\n">>), Reply(<<"N", "O">>), Reply(<<"n", "o">>)}

\* the responses to the retry request
RetryResponses ==
    {[NoResponseYet EXCEPT !.ok = TRUE, !.status = 200, !.isJson = TRUE,
                           !.hasText = TRUE, !.text = "hello",
                           !.usageMetadata = Field("{totalTokenCount:7}"),
                           !.raw = "{candidates:[{content:{parts:[{text:hello}]}}],usageMetadata:{totalTokenCount:7}}"],
     [NoResponseYet EXCEPT !.ok = TRUE, !.status = 200, !.isJson = TRUE, !.raw = "{}"],
     [NoResponseYet EXCEPT !.ok = TRUE, !.status = 200, !.isJson = TRUE,
                           !.hasText = TRUE, !.text = "hello",
                           !.response = Field("{id:r1}"),
                           !.raw = "{candidates:[{content:{parts:[{text:hello}]}}],response:{id:r1}}"],
     [NoResponseYet EXCEPT !.ok = TRUE, !.status = 200, !.raw = "<html>"],
     [NoResponseYet EXCEPT !.status = 402, !.isJson = TRUE,
                           !.raw = "{error:Payment Required}"],
     [NoResponseYet EXCEPT !.status = 500, !.raw = "oops"]}

\* the requirements a caller passes to signPayment, and the queries to consultJudge
ManualRequirements ==
    {Requirement(ParseMembers(DetailMembers(a, LitNum(X402Version)))) : a \in DetailAmounts}
ManualQueries ==
    {[context |-> "Calculating important physics data", amountStr |-> NotNumeric]}

Nonces == 1..NumNonces

(***************************************************************************)
(* State.                                                                  *)
(*   config, env : the configuration object and process.env                *)
(*   system      : what haloSystem(model, config) built                    *)
(*   tools       : the HaloPaymentTools a caller built from config         *)
(*   clock       : Date.now(), in ms                                       *)
(*   calls       : one record per asynchronous call; pc is the await the   *)
(*                 call is suspended at, originalReceived the this-value   *)
(*                 and arguments of each call of the original method       *)
(***************************************************************************)
VARIABLES config, env, system, tools, clock, calls

vars == <<config, env, system, tools, clock, calls>>

Calls == {"c1", "c2"}

NoOutcome == [kind |-> "none", error |-> "", rethrown |-> FALSE, text |-> ""]

IdleCall ==
    [pc |-> "idle", mode |-> "none", args |-> <<>>, caught |-> FALSE, error |-> NoError,
     originalCalls |-> 0, originalReceived |-> <<>>, extractions |-> 0, judgeQueries |-> <<>>, signCalls |-> 0,
     requirement |-> NoRequirement, job |-> NoJob, envelopes |-> <<>>,
     retryRequests |-> <<>>, reply |-> NoReply, decision |-> <<>>,
     response |-> NoResponseYet, result |-> NoResult, outcome |-> NoOutcome]

\* the call ends by throwing a new Error
Fail(rec, name, text) ==
    [rec EXCEPT !.pc = "failed",
                !.outcome = [kind |-> "throw", error |-> name, rethrown |-> FALSE,
                             text |-> text]]

\* the call ends by returning
Return(rec, what) ==
    [rec EXCEPT !.pc = "done",
                !.outcome = [kind |-> "return", error |-> "", rethrown |-> FALSE,
                             text |-> what]]

\* a call of signPayment (line 230, or by the caller), up to its first await
SignPaymentCall(rec, toolset, requirement, now1, now2, nonce) ==
    LET p == SignPaymentPrepare(toolset, requirement, now1, now2, nonce)
        r == [rec EXCEPT !.signCalls = @ + 1, !.requirement = requirement]
    IN IF p.threw # "" THEN Fail(r, p.threw, "")
       ELSE [r EXCEPT !.pc = "signing", !.job = p.job]

\* autoRecover (lines 176-230), up to its first await
autoRecover(rec, handler, error, now1, now2, nonce) ==
    LET ex == ExtractRequirements(error)
        r == [rec EXCEPT !.extractions = @ + 1]
        requirement == RequirementOf(ex.reqData)
    IN CASE ex.threw # "" -> Fail(r, ex.threw, "")
         [] ~requirement.defined -> Fail(r, "TypeError", "")
         [] handler.autoApprove ->
              SignPaymentCall(r, handler.tools, requirement, now1, now2, nonce)
         [] OTHER ->
              [r EXCEPT !.pc = "judge", !.requirement = requirement,
                        !.judgeQueries =
                            Append(@, [context |-> ex.reqData.description,
                                       amountStr |-> AmountField(requirement)])]

\* a catch block whose recovery calls the original method again
ProxyCatchReinvoking(rec, handler, error, now1, now2, nonce) ==
    LET r == [rec EXCEPT !.caught = TRUE, !.error = error]
    IN IF IsPaymentRequired(error)
       THEN autoRecover([r EXCEPT !.originalCalls = @ + 1,
                                  !.originalReceived =
                                      Append(@, [thisArg |-> "target", args |-> rec.args])],
                        handler, error, now1, now2, nonce)
       ELSE [r EXCEPT !.pc = "failed",
                      !.outcome = [kind |-> "throw", error |-> "", rethrown |-> TRUE,
                                   text |-> ""]]

\* the catch block of the wrapper (lines 146-156)
ProxyCatch(rec, handler, error, now1, now2, nonce) ==
    LET r == [rec EXCEPT !.caught = TRUE, !.error = error]
    IN IF IsPaymentRequired(error)
       THEN autoRecover(r, handler, error, now1, now2, nonce)
       ELSE [r EXCEPT !.pc = "failed",
                      !.outcome = [kind |-> "throw", error |-> "", rethrown |-> TRUE,
                                   text |-> ""]]

\* a retry that builds the body from arguments kept in a field of the shared
\* handler (written by the first call) instead of its own parameter
retrySharedArgs(rec, signature) ==
    [rec EXCEPT !.pc = "retrying",
                !.retryRequests =
                    Append(@, RetryRequest(signature,
                                           IF calls["c1"].pc = "idle" THEN rec.args
                                           ELSE calls["c1"].args))]

\* retry (lines 236-249), up to the await of fetch
retry(rec, signature) ==
    [rec EXCEPT !.pc = "retrying",
                !.retryRequests = Append(@, RetryRequest(signature, rec.args))]

Init ==
    /\ config \in Configs
    /\ env \in Environments
    /\ system = haloSystem(config, env)
    /\ tools = HaloPaymentTools(config)
    /\ clock = StartSecond * MsPerSecond + (MsPerSecond - 1)
    /\ calls = [c \in Calls |-> IdleCall]

\* a caller invokes a method of the wrapper (line 145: the original is called)
Invoke(c) ==
    /\ system.built
    /\ calls[c].pc = "idle"
    /\ \E a \in ArgLists :
         calls' = [calls EXCEPT ![c] = [@ EXCEPT !.pc = "original", !.mode = "wrapper",
                                                 !.args = a, !.originalCalls = @ + 1,
                                                 !.originalReceived =
                                                     Append(@, [thisArg |-> "target",
                                                                args |-> a])]]
    /\ UNCHANGED <<config, env, system, tools, clock>>

\* the original method returns: its result is returned unchanged
OriginalReturns(c) ==
    /\ calls[c].pc = "original"
    /\ calls' = [calls EXCEPT ![c] = Return(@, "original result")]
    /\ UNCHANGED <<config, env, system, tools, clock>>

\* the original method throws one of `errors`
OriginalThrows(c, errors) ==
    /\ calls[c].pc = "original"
    /\ \E error \in errors, d \in 0..MaxAdvance, nonce \in Nonces :
         LET r == ProxyCatch(calls[c], system.handler, error, clock, clock + d, nonce)
         IN /\ calls' = [calls EXCEPT ![c] = r]
            /\ clock' = IF r.pc = "signing" THEN clock + d ELSE clock
    /\ UNCHANGED <<config, env, system, tools>>

\* a caller calls tools.consultJudge directly
ManualConsultJudge(c) ==
    /\ calls[c].pc = "idle"
    /\ \E q \in ManualQueries :
         calls' = [calls EXCEPT ![c] = [@ EXCEPT !.pc = "judge", !.mode = "manual",
                                                 !.judgeQueries = Append(@, q)]]
    /\ UNCHANGED <<config, env, system, tools, clock>>

\* a caller calls tools.signPayment directly
ManualSignPayment(c) ==
    /\ calls[c].pc = "idle"
    /\ \E requirement \in ManualRequirements, d \in 0..MaxAdvance, nonce \in Nonces :
         LET r == SignPaymentCall([calls[c] EXCEPT !.mode = "manual"], tools, requirement,
                                  clock, clock + d, nonce)
         IN /\ calls' = [calls EXCEPT ![c] = r]
            /\ clock' = IF r.pc = "signing" THEN clock + d ELSE clock
    /\ UNCHANGED <<config, env, system, tools>>

\* the fetch of consultJudge settles (line 40)
JudgeFetchSettles(c) ==
    /\ calls[c].pc = "judge"
    /\ \/ calls' = [calls EXCEPT ![c] = Fail(@, "TransportFailure", "")]
       \/ \E reply \in JudgeReplies :
            calls' = [calls EXCEPT ![c] = [@ EXCEPT !.pc = "judgeBody", !.reply = reply]]
    /\ UNCHANGED <<config, env, system, tools, clock>>

\* response.json() settles (lines 58-59) and consultJudge returns the
\* decision: to the caller, or to the await of line 225
JudgeBodySettles(c) ==
    /\ calls[c].pc = "judgeBody"
    /\ LET decision == JudgeDecision(calls[c].reply)
           r == [calls[c] EXCEPT !.decision = decision]
       IN calls' = [calls EXCEPT ![c] =
             CASE ~calls[c].reply.json -> Fail(@, "SyntaxError", "")
               [] calls[c].mode = "manual" -> Return(r, "decision")
               [] OTHER -> [r EXCEPT !.pc = "judged"]]
    /\ UNCHANGED <<config, env, system, tools, clock>>

\* a recovery that sends the retry although signing was rejected
SignTypedDataSettlesUnchecked(c) ==
    /\ calls[c].pc = "signing"
    /\ \/ calls' = [calls EXCEPT ![c] =
                       IF calls[c].mode = "manual" THEN Fail(@, "SigningError", "")
                       ELSE retry(@, NoEnvelope)]
       \/ LET toolset == IF calls[c].mode = "manual" THEN tools ELSE system.handler.tools
              envelope == BuildEnvelope(toolset, calls[c].requirement, calls[c].job)
              r == [calls[c] EXCEPT !.envelopes = Append(@, envelope)]
          IN calls' = [calls EXCEPT ![c] =
                          IF calls[c].mode = "manual" THEN Return(r, "envelope")
                          ELSE retry(r, envelope)]
    /\ UNCHANGED <<config, env, system, tools, clock>>

\* wallet.signTypedData settles (line 101) and signPayment returns the
\* envelope (lines 104-120): to the caller, or to the await of line 230
SignTypedDataSettles(c) ==
    /\ calls[c].pc = "signing"
    /\ \/ calls' = [calls EXCEPT ![c] = Fail(@, "SigningError", "")]
       \/ LET toolset == IF calls[c].mode = "manual" THEN tools ELSE system.handler.tools
              envelope == BuildEnvelope(toolset, calls[c].requirement, calls[c].job)
              r == [calls[c] EXCEPT !.envelopes = Append(@, envelope)]
          IN calls' = [calls EXCEPT ![c] =
                          IF calls[c].mode = "manual" THEN Return(r, "envelope")
                          ELSE [r EXCEPT !.pc = "signed"]]
    /\ UNCHANGED <<config, env, system, tools, clock>>

\* autoRecover resumes after an await of its own: after line 225 with the
\* decision (line 226, then signPayment is called at line 230), or after
\* line 230 with the envelope (retry is called at line 233)
AutoRecoverResumes(c) ==
    /\ calls[c].pc \in {"judged", "signed"}
    /\ IF calls[c].pc = "signed"
       THEN /\ calls' = [calls EXCEPT ![c] =
                            retry(@, calls[c].envelopes[Len(calls[c].envelopes)])]
            /\ clock' = clock
       ELSE IF ~Approves(calls[c].decision)
       THEN /\ calls' = [calls EXCEPT ![c] = Fail(@, "JudgeDenied", "")]
            /\ clock' = clock
       ELSE \E d \in 0..MaxAdvance, nonce \in Nonces :
              LET n == SignPaymentCall(calls[c], system.handler.tools,
                                       calls[c].requirement, clock, clock + d, nonce)
              IN /\ calls' = [calls EXCEPT ![c] = n]
                 /\ clock' = IF n.pc = "signing" THEN clock + d ELSE clock
    /\ UNCHANGED <<config, env, system, tools>>

\* the fetch of the retry settles (line 242)
RetryFetchSettles(c) ==
    /\ calls[c].pc = "retrying"
    /\ \/ calls' = [calls EXCEPT ![c] = Fail(@, "TransportFailure", "")]
       \/ \E response \in RetryResponses :
            calls' = [calls EXCEPT ![c] = [@ EXCEPT !.pc = "retryBody",
                                                    !.response = response]]
    /\ UNCHANGED <<config, env, system, tools, clock>>

\* a retry that waits for another response when the response is no success
RetryBodySettlesWaiting(c) ==
    /\ calls[c].pc = "retryBody"
    /\ LET response == calls[c].response
       IN calls' = [calls EXCEPT ![c] =
             CASE ~response.ok -> [@ EXCEPT !.pc = "retrying"]
               [] ~response.isJson -> Fail(@, "SyntaxError", "")
               [] OTHER -> Return([@ EXCEPT !.result = Reshape(response)], "reshaped")]
    /\ UNCHANGED <<config, env, system, tools, clock>>

\* a retry that answers another payment-required response by sending the
\* request once more
RetryBodySettlesAgain(c) ==
    /\ calls[c].pc = "retryBody"
    /\ LET response == calls[c].response
       IN calls' = [calls EXCEPT ![c] =
             CASE ~response.ok /\ response.status = PaymentRequiredStatus ->
                      retry(@, calls[c].envelopes[1])
               [] ~response.ok -> Fail(@, "RetryFailure", response.raw)
               [] ~response.isJson -> Fail(@, "SyntaxError", "")
               [] OTHER -> Return([@ EXCEPT !.result = Reshape(response)], "reshaped")]
    /\ UNCHANGED <<config, env, system, tools, clock>>

\* the body of the retry response is read (lines 251-264)
RetryBodySettles(c) ==
    /\ calls[c].pc = "retryBody"
    /\ LET response == calls[c].response
       IN calls' = [calls EXCEPT ![c] =
             CASE ~response.ok -> Fail(@, "RetryFailure", response.raw)
               [] ~response.isJson -> Fail(@, "SyntaxError", "")
               [] OTHER -> Return([@ EXCEPT !.result = Reshape(response)], "reshaped")]
    /\ UNCHANGED <<config, env, system, tools, clock>>

\* one step of call c, the wrapped method throwing a failure of `errors`
CallStep(c, errors) ==
    \/ Invoke(c)
    \/ OriginalReturns(c)
    \/ OriginalThrows(c, errors)
    \/ ManualConsultJudge(c)
    \/ ManualSignPayment(c)
    \/ JudgeFetchSettles(c)
    \/ JudgeBodySettles(c)
    \/ SignTypedDataSettles(c)
    \/ AutoRecoverResumes(c)
    \/ RetryFetchSettles(c)
    \/ RetryBodySettles(c)

\* one caller making one call ("c2" stays idle under this specification)
Next == CallStep("c1", Errors)

Spec == Init /\ [][Next]_vars

(***************************************************************************)
(* Two calls on the same wrapper in flight together.  The wrapped method   *)
(* throws payment-required failures that embed different terms in the      *)
(* three locations, or a failure without indicator.  The judge is never    *)
(* reached from a wrapper, so its steps are no part of this specification. *)
(***************************************************************************)
ConcurrentErrors ==
    {[NoError EXCEPT !.response =
          [present |-> TRUE, status |-> Num(PaymentRequiredStatus),
           headers |-> [shape |-> "plain",
                        paymentRequired |-> RawHeader(DirectText(HeaderMembers))]]],
     [NoError EXCEPT !.status = Num(PaymentRequiredStatus),
                     !.errorDetails =
          Details(<<JsObject(NoTerms, TRUE,
                             <<ParseMembers(DetailMembers(<<LitStr(1000000), LitAbsent>>,
                                                          LitAbsent))>>,
                             "details resource")>>)],
     [NoError EXCEPT !.message =
          Message(<<Ch("["), Ch("402"), Ch(" "), Ch("Payment Required"), Ch("]"), Ch(" "),
                    Ch("[")>> \o AcceptsText(MessageMembers, "message resource")
                    \o <<Ch("]")>>)],
     [NoError EXCEPT !.message = Message(<<Ch("Internal error")>>)]}

WrapperStep(c, errors) ==
    \/ Invoke(c)
    \/ OriginalReturns(c)
    \/ OriginalThrows(c, errors)
    \/ SignTypedDataSettles(c)
    \/ AutoRecoverResumes(c)
    \/ RetryFetchSettles(c)
    \/ RetryBodySettles(c)

ConcurrentNext == \E c \in Calls : WrapperStep(c, ConcurrentErrors)

\* the key is given in the configuration
ConcurrentInit ==
    /\ Init
    /\ config.privateKey # ""
    /\ env.HALO_WALLET_PRIVATE_KEY = ""

SpecConcurrent == ConcurrentInit /\ [][ConcurrentNext]_vars

(***************************************************************************)
(* One call whose pending I/O always completes: every await of the call    *)
(* (the original method, the advisory fetch and its body, signTypedData,   *)
(* the retry fetch and its body) settles once it is pending, and the event *)
(* loop runs a continuation of autoRecover that is ready.  Whether a       *)
(* caller calls at all is left open.                                       *)
(***************************************************************************)
FairNext == CallStep("c1", ConcurrentErrors)

OriginalSettles(c) == OriginalReturns(c) \/ OriginalThrows(c, ConcurrentErrors)

IOCompletes(c) ==
    /\ WF_vars(OriginalSettles(c))
    /\ WF_vars(JudgeFetchSettles(c))
    /\ WF_vars(JudgeBodySettles(c))
    /\ WF_vars(SignTypedDataSettles(c))
    /\ WF_vars(AutoRecoverResumes(c))
    /\ WF_vars(RetryFetchSettles(c))
    /\ WF_vars(RetryBodySettles(c))

SpecFair == Init /\ [][FairNext]_vars /\ IOCompletes("c1")

(***************************************************************************)
(* Vocabulary of the properties.                                           *)
(***************************************************************************)
WrapperCalls == {c \in Calls : calls[c].mode = "wrapper"}
ManualCalls == {c \in Calls : calls[c].mode = "manual"}

\* a wrapper call whose original method threw
CaughtCalls == {c \in WrapperCalls : calls[c].caught}

\* the payment-required indicators of a failure, one by one
ResponseStatus402(e) ==
    e.response.present /\ e.response.status = Num(PaymentRequiredStatus)
ErrorStatus402(e) == e.status = Num(PaymentRequiredStatus)
Message402(e) == Includes(e.message, "402") \/ Includes(e.message, "Payment Required")
AnyIndicator(e) == ResponseStatus402(e) \/ ErrorStatus402(e) \/ Message402(e)

\* the recovery sequence was started for the call
RecoveryStarted(c) == calls[c].extractions > 0

\* nothing of the recovery happened in the call
NoRecoveryEffects(c) ==
    /\ calls[c].extractions = 0
    /\ calls[c].judgeQueries = <<>>
    /\ calls[c].signCalls = 0
    /\ calls[c].envelopes = <<>>
    /\ calls[c].retryRequests = <<>>

\* a signing key is configured: in the configuration object or the environment
KeyConfigured == OrKey(config.privateKey, env.HALO_WALLET_PRIVATE_KEY) # ""

\* the structure each extraction location of a failure holds (JsUndefined: none)
HeaderStructure(e) ==
    LET h == e.response.headers.paymentRequired
        parsed == JSONParse(Base64Decode(h))
    IN IF e.response.present /\ e.response.headers.shape # "none" /\ h.present
          /\ parsed.ok /\ parsed.value.kind = "object"
       THEN parsed.value ELSE JsUndefined
DetailsStructure(e) ==
    IF e.errorDetails.defined /\ e.errorDetails.isArray /\ Len(e.errorDetails.elems) > 0
    THEN LET first == e.errorDetails.elems[1]
         IN IF first.kind = "object" /\ (first.hasAccepts \/ Truthy(first.self.x402Version))
            THEN first ELSE JsUndefined
    ELSE JsUndefined
MessageStructure(e) ==
    IF e.message.defined
    THEN LET parsed == JSONParse(RegexMatch(e.message.text).group)
         IN IF parsed.ok /\ parsed.value.kind = "object" THEN parsed.value ELSE JsUndefined
    ELSE JsUndefined
FirstStructure(e) ==
    IF Present(HeaderStructure(e)) THEN HeaderStructure(e)
    ELSE IF Present(DetailsStructure(e)) THEN DetailsStructure(e)
    ELSE MessageStructure(e)

\* the first element of the details array is null
NullDetail(e) ==
    /\ e.errorDetails.defined /\ e.errorDetails.isArray
    /\ Len(e.errorDetails.elems) > 0
    /\ e.errorDetails.elems[1].kind = "null"

\* a numeric amount: a decimal string or a number
Numeric(x) == x.t = "number" \/ (x.t = "string" /\ x.v >= 0)

(***************************************************************************)
(* C1: a failure of the wrapped method that carries no payment-required    *)
(* indicator is rethrown as the same object, and nothing of the recovery   *)
(* (extraction, judge query, signing, retry) happens in that call.         *)
(***************************************************************************)
C1_PassThroughUnchanged ==
    \A c \in CaughtCalls :
        ~AnyIndicator(calls[c].error) =>
            /\ calls[c].pc = "failed"
            /\ calls[c].outcome.kind = "throw"
            /\ calls[c].outcome.rethrown
            /\ NoRecoveryEffects(c)

C1_Witness ==
    \E c \in CaughtCalls :
        /\ calls[c].error.response.present
        /\ calls[c].error.response.status = Num(500)
        /\ ~AnyIndicator(calls[c].error)
        /\ calls[c].outcome.rethrown

(***************************************************************************)
(* C2: a failure starts the recovery sequence iff at least one indicator   *)
(* matches: response status 402, error status 402, or a message holding    *)
(* "402" or "Payment Required"; for every combination of the indicators.   *)
(***************************************************************************)
C2_RecoveryIffAnyIndicator ==
    \A c \in CaughtCalls : RecoveryStarted(c) <=> AnyIndicator(calls[c].error)

(***************************************************************************)
(* C3: with a signing key configured, a recovery never consults the judge: *)
(* it goes from extraction to signing to the retry, and the retry's        *)
(* successful result is what the call returns.                             *)
(***************************************************************************)
C3_FastTrackSkipsJudge ==
    KeyConfigured =>
        \A c \in WrapperCalls :
            /\ calls[c].judgeQueries = <<>>
            /\ calls[c].pc \notin {"judge", "judgeBody", "judged"}
            /\ calls[c].signCalls > 0 => calls[c].extractions = 1
            /\ calls[c].pc \in {"retrying", "retryBody"} =>
                   /\ calls[c].signCalls = 1
                   /\ Len(calls[c].envelopes) = 1
                   /\ Len(calls[c].retryRequests) = 1
            /\ (calls[c].caught /\ calls[c].pc = "done") =>
                   /\ calls[c].response.ok
                   /\ Len(calls[c].retryRequests) = 1
                   /\ calls[c].outcome.kind = "return"
                   /\ calls[c].result = Reshape(calls[c].response)

C3_Witness ==
    \E c \in CaughtCalls :
        /\ KeyConfigured
        /\ calls[c].pc = "done"
        /\ calls[c].signCalls = 1
        /\ calls[c].result.response.text = "hello"

(***************************************************************************)
(* C4: in a system configured without a signing key, a payment-required    *)
(* failure leads to the judge first, asked with the resource description   *)
(* and the amount of the extracted requirement; a decision without "YES"   *)
(* fails the recovery with the judge-denied error and no retry is issued.  *)
(***************************************************************************)
C4_JudgeFirstWithoutKey ==
    config.privateKey = "" =>
        \A c \in CaughtCalls :
            /\ calls[c].signCalls > 0 =>
                   /\ Len(calls[c].judgeQueries) = 1
                   /\ calls[c].judgeQueries[1] =
                        [context |-> FirstStructure(calls[c].error).description,
                         amountStr |-> AmountField(calls[c].requirement)]
                   /\ Approves(calls[c].decision)
            /\ (calls[c].decision # <<>> /\ ~Approves(calls[c].decision)) =>
                   /\ calls[c].pc = "failed"
                   /\ calls[c].outcome.error = "JudgeDenied"
                   /\ calls[c].retryRequests = <<>>

(***************************************************************************)
(* C5: without a signing key nothing is ever signed: signPayment throws    *)
(* the no-signing-key error, no envelope is produced and no retry request  *)
(* with a Payment-Signature header is issued.                              *)
(***************************************************************************)
ToolsetOf(c) == IF calls[c].mode = "manual" THEN tools ELSE system.handler.tools

C5_NoKeyNeverSigns ==
    /\ \A c \in Calls :
          (calls[c].signCalls > 0 /\ ~ToolsetOf(c).wallet.present) =>
              /\ calls[c].pc = "failed"
              /\ calls[c].outcome.error = "NoSigningKey"
              /\ calls[c].envelopes = <<>>
              /\ calls[c].retryRequests = <<>>
    /\ ~KeyConfigured =>
          \A c \in Calls :
              /\ calls[c].pc \notin {"signing", "signed", "retrying", "retryBody"}
              /\ calls[c].envelopes = <<>>
              /\ calls[c].retryRequests = <<>>

C5_Witness ==
    \E c \in ManualCalls :
        /\ ~KeyConfigured
        /\ calls[c].signCalls = 1
        /\ calls[c].pc = "failed"
        /\ calls[c].outcome.error = "NoSigningKey"

(***************************************************************************)
(* C6: the strategies are tried in the order header, details, message, the *)
(* first location that holds a structure decides the requirement, with no  *)
(* merging: the requirement is the one embedded in the earliest location   *)
(* that holds valid terms.                                                 *)
(***************************************************************************)
C6_FirstStrategyWins ==
    \A c \in CaughtCalls :
        LET first == FirstStructure(calls[c].error)
        IN (RecoveryStarted(c) /\ Present(first) /\ RequirementOf(first).defined) =>
               calls[c].requirement = RequirementOf(first)

(***************************************************************************)
(* C7: when the three strategies are exhausted without a result the        *)
(* recovery throws the extraction failure and ends: the judge is not       *)
(* consulted, nothing is signed, no retry is issued, and extraction is not *)
(* attempted again.                                                        *)
(***************************************************************************)
\* strategy B reads a member of null before strategy C is reached
StrategyBThrows(e) == NullDetail(e) /\ ~Present(HeaderStructure(e))

C7_ExtractionFailureTerminates ==
    \A c \in CaughtCalls :
        (RecoveryStarted(c) /\ ~Present(FirstStructure(calls[c].error))
            /\ ~StrategyBThrows(calls[c].error)) =>
            /\ calls[c].pc = "failed"
            /\ calls[c].outcome = [kind |-> "throw", error |-> "ExtractionFailure",
                                   rethrown |-> FALSE, text |-> ""]
            /\ calls[c].extractions = 1
            /\ calls[c].judgeQueries = <<>>
            /\ calls[c].signCalls = 0
            /\ calls[c].envelopes = <<>>
            /\ calls[c].retryRequests = <<>>

C7_Witness ==
    \E c \in CaughtCalls :
        /\ calls[c].outcome.error = "ExtractionFailure"
        /\ calls[c].error.response.headers.paymentRequired.present
        /\ Len(calls[c].error.errorDetails.elems) > 0
        /\ RegexMatch(calls[c].error.message.text).matched

(***************************************************************************)
(* C8: the amount of an extracted requirement is read from `amount` or     *)
(* from `maxAmountRequired`, and the signed value equals it; a requirement *)
(* with neither field numeric fails extraction, before any judge query or  *)
(* signing.                                                                *)
(***************************************************************************)
ExpectedAmount(terms) ==
    IF Numeric(terms.amount) THEN terms.amount ELSE terms.maxAmountRequired

C8_AmountParsedOrExtractionFails ==
    \A c \in CaughtCalls :
        LET first == FirstStructure(calls[c].error)
            terms == RequirementOf(first).terms
        IN (RecoveryStarted(c) /\ Present(first) /\ RequirementOf(first).defined
               /\ ~StrategyBThrows(calls[c].error)) =>
               IF Numeric(terms.amount) \/ Numeric(terms.maxAmountRequired)
               THEN calls[c].signCalls > 0 =>
                        /\ calls[c].job # NoJob
                        /\ calls[c].job.message.value = ExpectedAmount(terms).v
               ELSE /\ calls[c].pc = "failed"
                    /\ calls[c].outcome.error = "ExtractionFailure"
                    /\ calls[c].judgeQueries = <<>>
                    /\ calls[c].signCalls = 0

(***************************************************************************)
(* C9: every authorization has validBefore - validAfter = 3660 s and       *)
(* validAfter <= now <= validBefore at signing time, however the clock     *)
(* advances between the two reads of the signing call.                     *)
(***************************************************************************)
C9_WindowIs3660 ==
    \A c \in Calls :
        calls[c].job # NoJob =>
            /\ calls[c].job.message.validBefore - calls[c].job.message.validAfter
                   = ValidAfterSkew + ValidBeforeWindow
            /\ calls[c].job.message.validAfter <= Seconds(calls[c].job.readAfter)
            /\ Seconds(calls[c].job.readBefore) <= calls[c].job.message.validBefore

(***************************************************************************)
(* C11: two calls in flight together that both hit a payment-required      *)
(* failure recover independently under every interleaving: each produces   *)
(* exactly one authorization of its own, and each retry carries the        *)
(* envelope built from its own requirement and the body built from its own *)
(* arguments.                                                              *)
(***************************************************************************)
C11_IndependentRecoveries ==
    \A c \in CaughtCalls :
        /\ Len(calls[c].envelopes) <= 1
        /\ Len(calls[c].retryRequests) <= 1
        /\ calls[c].pc = "signed" =>
               /\ Len(calls[c].envelopes) = 1
               /\ calls[c].retryRequests = <<>>
               /\ calls[c].envelopes[1].accepted
                      = RequirementOf(FirstStructure(calls[c].error))
        /\ calls[c].pc \in {"retrying", "retryBody", "done"} =>
               /\ Len(calls[c].envelopes) = 1
               /\ Len(calls[c].retryRequests) = 1
               /\ calls[c].requirement = RequirementOf(FirstStructure(calls[c].error))
               /\ calls[c].envelopes[1].accepted = calls[c].requirement
               /\ calls[c].envelopes[1].payload.authorization.to
                      = calls[c].requirement.terms.payTo
               /\ calls[c].envelopes[1].payload.authorization.nonce
                      = calls[c].job.message.nonce
               /\ calls[c].retryRequests[1].paymentSignature = calls[c].envelopes[1]
               /\ calls[c].retryRequests[1].body = RetryContents(calls[c].args)

\* both calls are suspended in their retries, with different requirements
\* and different arguments
C11_Witness ==
    /\ calls["c1"].pc = "retrying"
    /\ calls["c2"].pc = "retrying"
    /\ calls["c1"].requirement # calls["c2"].requirement
    /\ calls["c1"].args # calls["c2"].args

\* the retry of the call got a response that is not a success
RetryRejected(c) ==
    /\ c \in WrapperCalls
    /\ calls[c].pc = "failed"
    /\ calls[c].response # NoResponseYet
    /\ ~calls[c].response.ok

C12_AtMostOnce ==
    \A c \in WrapperCalls :
        /\ calls[c].signCalls <= 1
        /\ Len(calls[c].envelopes) <= 1
        /\ Len(calls[c].retryRequests) <= 1
        /\ RetryRejected(c) =>
               /\ calls[c].outcome.kind = "throw"
               /\ calls[c].outcome.error = "RetryFailure"
               /\ ~calls[c].outcome.rethrown
               /\ calls[c].outcome.text = calls[c].response.raw

C12_FailureIsFinal ==
    \A c \in Calls : RetryRejected(c) => calls'[c] = calls[c]

(***************************************************************************)
(* C12: an invocation signs at most one authorization and sends at most    *)
(* one retry request; a retry response that is not a success (another 402  *)
(* included) fails the call with the retry failure carrying the raw body   *)
(* of the response, and nothing happens in the call after that failure.    *)
(***************************************************************************)
C12_SingleAttempt == []C12_AtMostOnce /\ [][C12_FailureIsFinal]_vars

\* the retry was answered by another 402 and the call failed with its body
C12_Witness ==
    /\ RetryRejected("c1")
    /\ calls["c1"].response.status = PaymentRequiredStatus
    /\ calls["c1"].signCalls = 1
    /\ Len(calls["c1"].retryRequests) = 1
    /\ calls["c1"].outcome.text = "{error:Payment Required}"

\* the retry of the call succeeded with a JSON body
RetrySucceeded(c) ==
    /\ c \in WrapperCalls
    /\ calls[c].pc = "done"
    /\ calls[c].retryRequests # <<>>

(***************************************************************************)
(* C13: for every successful retry with JSON body J the result exposes a   *)
(* response wrapper whose text accessor returns the text of the first part *)
(* of the first candidate of J ("" when absent), and every top-level field *)
(* of J is in the result unchanged, whatever the field names of J are.     *)
(***************************************************************************)
C13_ReshapedResult ==
    \A c \in Calls :
        RetrySucceeded(c) =>
            LET J == calls[c].response
                result == calls[c].result
            IN /\ result.response.wrapper
               /\ result.response.text = (IF J.hasText THEN J.text ELSE "")
               /\ result.candidates = [hasText |-> J.hasText, text |-> J.text]
               /\ result.usageMetadata = J.usageMetadata
               /\ J.response.present => result.response.v = J.response.v

\* the advisory query of the call was answered and its body read
JudgeAnswered(c) ==
    /\ calls[c].judgeQueries # <<>>
    /\ calls[c].pc \notin {"judge", "judgeBody"}
    /\ calls[c].outcome.error # "TransportFailure"

YesApproved == <<"Y", "E", "S", ",", " ", "a", "p", "p", "r", "o", "v", "e", "d", ".">>

(***************************************************************************)
(* C14: the decision is the reply text trimmed and upper-cased, and it is  *)
(* an approval exactly when it contains "YES": "YES, approved." approves,  *)
(* "NO" denies, and an empty reply or a missing candidate or text path     *)
(* gives the sentinel "ERROR", a denial.  An unparseable reply gives no    *)
(* decision at all, and a payment is signed in a recovery only after an    *)
(* approval.                                                               *)
(***************************************************************************)
C14_JudgeDecision ==
    \A c \in Calls :
        JudgeAnswered(c) =>
            LET reply == calls[c].reply
                decision == calls[c].decision
                empty == ~reply.hasText \/ \A i \in 1..Len(reply.text) : IsSpace(reply.text[i])
            IN /\ ~reply.json => /\ decision = <<>>
                                 /\ calls[c].pc = "failed"
                                 /\ calls[c].signCalls = 0
               /\ (reply.json /\ empty) => /\ decision = ErrorSentinel
                                           /\ ~Approves(decision)
               /\ (reply.json /\ ~empty) =>
                      /\ decision = ToUpperCase(Trim(reply.text))
                      /\ decision # <<>>
                      /\ ~IsSpace(decision[1]) /\ ~IsSpace(decision[Len(decision)])
                      /\ \A i \in 1..Len(decision) :
                             decision[i] \notin {"a", "d", "e", "n", "o", "p", "r", "s",
                                                 "v", "y"}
                      /\ Len(decision) = Len(Trim(reply.text))
                      /\ Approves(decision) <=>
                            \E i \in 1..(Len(decision) - 2) :
                                <<decision[i], decision[i + 1], decision[i + 2]>> = Yes
               /\ reply = Reply(YesApproved) =>
                      /\ decision = <<"Y", "E", "S", ",", " ", "A", "P", "P", "R", "O", "V",
                                      "E", "D", ".">>
                      /\ Approves(decision)
               /\ reply = Reply(<<"N", "O">>) => (decision = <<"N", "O">> /\ ~Approves(decision))
               /\ (calls[c].mode = "wrapper" /\ calls[c].signCalls > 0) => Approves(decision)

\* the judge replied " yes\n" and the decision returned is "YES", an approval
C14_Witness ==
    /\ JudgeAnswered("c1")
    /\ calls["c1"].reply = Reply(<<" ", "y", "e", "s", "\n">>)
    /\ calls["c1"].decision = Yes
    /\ Approves(calls["c1"].decision)
    /\ calls["c1"].pc = "done"

(***************************************************************************)
(* C15: every envelope signPayment produces for a requirement R has        *)
(* version 2, carries R itself as the accepted terms, and its              *)
(* authorization is the signed message: from is the signer's account, to   *)
(* is the payTo of R, value is the decimal string of the amount of R, and  *)
(* validAfter, validBefore and nonce are those of the signed typed-data    *)
(* message, as strings.                                                    *)
(***************************************************************************)
C15_EnvelopeIsSignedMessage ==
    \A c \in Calls :
        \A i \in 1..Len(calls[c].envelopes) :
            LET envelope == calls[c].envelopes[i]
                R == calls[c].requirement
                authorization == envelope.payload.authorization
                signed == envelope.payload.signature
            IN /\ envelope.x402Version = 2
               /\ envelope.accepted = R
               /\ signed.signer = ToolsetOf(c).wallet.address
               /\ authorization.from = signed.signer
               /\ authorization.from = signed.message.from
               /\ authorization.to = R.terms.payTo
               /\ authorization.to = signed.message.to
               /\ authorization.value = NumStr(signed.message.value)
               /\ authorization.value = NumStr(ExpectedAmount(R.terms).v)
               /\ authorization.validAfter = NumStr(signed.message.validAfter)
               /\ authorization.validBefore = NumStr(signed.message.validBefore)
               /\ authorization.nonce = signed.message.nonce

(***************************************************************************)
(* C16: the body of the retry is built from the first argument of the      *)
(* call: a string s becomes {contents: [{parts: [{text: s}]}]}, anything   *)
(* else is sent as it is; the retry carries in its Payment-Signature       *)
(* header the envelope the signing step of this recovery returned.         *)
(***************************************************************************)
C16_RetryRequestShape ==
    \A c \in WrapperCalls :
        \A i \in 1..Len(calls[c].retryRequests) :
            LET request == calls[c].retryRequests[i]
                args == calls[c].args
            IN /\ (args # <<>> /\ args[1].t = "string") =>
                      request.body = [wrapped |-> TRUE, value |-> args[1]]
               /\ (args # <<>> /\ args[1].t # "string") =>
                      request.body = [wrapped |-> FALSE, value |-> args[1]]
               /\ args = <<>> => request.body = [wrapped |-> FALSE, value |-> UndefinedArg]
               /\ Len(calls[c].envelopes) = 1
               /\ request.paymentSignature = calls[c].envelopes[1]
               /\ request.paymentSignature.accepted = calls[c].requirement

\* a call with an object as first argument was retried with that object
C16_Witness ==
    /\ calls["c1"].mode = "wrapper"
    /\ calls["c1"].args = <<ObjectArg("native request"), StringArg("second argument")>>
    /\ Len(calls["c1"].retryRequests) = 1
    /\ calls["c1"].retryRequests[1].body.value = ObjectArg("native request")
    /\ ~calls["c1"].retryRequests[1].body.wrapped
    /\ calls["c1"].retryRequests[1].paymentSignature # NoEnvelope

\* the steps of a recovery, in their order
Stage(rec) ==
    CASE rec.pc \in {"idle", "original"} -> 0
      [] rec.pc \in {"judge", "judgeBody", "judged"} -> 1
      [] rec.pc \in {"signing", "signed"} -> 2
      [] rec.pc \in {"retrying", "retryBody"} -> 3
      [] OTHER -> 4

\* what holds of a recovery at each step
C17_StepsInOrder ==
    \A c \in WrapperCalls :
        /\ calls[c].extractions <= 1
        /\ Len(calls[c].judgeQueries) <= 1
        /\ calls[c].signCalls <= 1
        /\ Len(calls[c].envelopes) <= 1
        /\ Len(calls[c].retryRequests) <= 1
        /\ Stage(calls[c]) \in {1, 2, 3} =>
               /\ calls[c].extractions = 1
               /\ IsPaymentRequired(calls[c].error)
               /\ calls[c].requirement.defined
               /\ calls[c].requirement = RequirementOf(FirstStructure(calls[c].error))
        /\ Stage(calls[c]) = 1 => (~system.handler.autoApprove /\ calls[c].signCalls = 0)
        /\ calls[c].signCalls > 0 =>
               /\ calls[c].extractions = 1
               /\ calls[c].requirement.defined
               /\ system.handler.autoApprove \/ Approves(calls[c].decision)
               /\ system.handler.autoApprove => calls[c].judgeQueries = <<>>
        /\ Stage(calls[c]) = 2 => calls[c].retryRequests = <<>>
        /\ calls[c].pc = "signing" => calls[c].envelopes = <<>>
        /\ calls[c].pc = "signed" => Len(calls[c].envelopes) = 1
        /\ calls[c].retryRequests # <<>> =>
               /\ calls[c].signCalls = 1
               /\ Len(calls[c].envelopes) = 1
               /\ calls[c].envelopes[1] # NoEnvelope
               /\ calls[c].retryRequests[1].paymentSignature = calls[c].envelopes[1]
        /\ Stage(calls[c]) = 3 => Len(calls[c].retryRequests) = 1

\* a step never goes backward, and a failure is the last step
C17_NoBackwardStep ==
    \A c \in Calls :
        (calls[c].mode = "wrapper" /\ calls'[c] # calls[c]) =>
            /\ Stage(calls'[c]) >= Stage(calls[c])
            /\ Stage(calls[c]) < 4
            /\ calls[c].pc = "judgeBody" => calls'[c].pc \in {"judged", "failed"}
            /\ calls[c].pc = "judged" => calls'[c].pc \in {"signing", "failed"}
            /\ calls[c].pc = "signing" => calls'[c].pc \in {"signed", "failed"}
            /\ calls[c].pc = "signed" => calls'[c].pc = "retrying"
            /\ calls[c].pc = "retrying" => calls'[c].pc \in {"retryBody", "failed"}
            /\ calls[c].pc = "retryBody" => calls'[c].pc \in {"done", "failed"}
            /\ calls'[c].pc = "failed" =>
                   /\ calls'[c].signCalls = calls[c].signCalls
                          \/ (calls[c].pc \in {"original", "judged"}
                                /\ calls'[c].envelopes = <<>>)
                   /\ calls'[c].envelopes = calls[c].envelopes
                   /\ calls'[c].retryRequests = calls[c].retryRequests

(***************************************************************************)
(* C17: every recovery goes Intercepted -> (AutoApprovePath | ConsultPath) *)
(* -> Signed -> Retried -> (Done | Failed) and never backward: it signs    *)
(* only after extraction produced a requirement (and, on the consult path, *)
(* after an approval), it retries only after signing succeeded, it enters  *)
(* each step at most once, and a failure of a step ends the call with no   *)
(* later step.                                                             *)
(***************************************************************************)
C17_RecoveryStateMachine == []C17_StepsInOrder /\ [][C17_NoBackwardStep]_vars

\* a recovery went through signing and the retry and ended in Done
C17_Witness ==
    /\ calls["c1"].mode = "wrapper"
    /\ calls["c1"].pc = "done"
    /\ calls["c1"].extractions = 1
    /\ calls["c1"].signCalls = 1
    /\ Len(calls["c1"].envelopes) = 1
    /\ Len(calls["c1"].retryRequests) = 1

\* strategy B runs on a details array whose first element carries neither
\* accepts nor a version tag
DetailDiscarded(e) ==
    /\ ~Present(HeaderStructure(e))
    /\ e.errorDetails.defined /\ e.errorDetails.isArray
    /\ Len(e.errorDetails.elems) > 0
    /\ ~Present(DetailsStructure(e))

(***************************************************************************)
(* C18: a non-empty details array whose first element has neither accepts  *)
(* nor a version tag (whatever the element is, an empty one or null        *)
(* included) is discarded and extraction goes on with the message: the     *)
(* requirement comes from the message when it embeds one, the recovery     *)
(* ends with the extraction failure when it does not, and the details      *)
(* strategy itself never fails the recovery.                               *)
(***************************************************************************)
C18_DetailsFallThrough ==
    \A c \in CaughtCalls :
        (RecoveryStarted(c) /\ DetailDiscarded(calls[c].error)) =>
            LET fromMessage == MessageStructure(calls[c].error)
            IN /\ (Present(fromMessage) /\ RequirementOf(fromMessage).defined) =>
                      /\ calls[c].signCalls = 1
                      /\ calls[c].requirement = RequirementOf(fromMessage)
               /\ ~Present(fromMessage) =>
                      /\ calls[c].pc = "failed"
                      /\ calls[c].outcome.error = "ExtractionFailure"

(***************************************************************************)
(* C19: every invocation through the wrapper calls the original method     *)
(* exactly once, with the caller's arguments and the wrapped object as     *)
(* target; when the original succeeds its result is returned unchanged and *)
(* the wrapper consults no judge, signs nothing and sends no request; a    *)
(* recovery never calls the original a second time.                        *)
(***************************************************************************)
C19_OriginalCalledOnce ==
    \A c \in WrapperCalls :
        /\ calls[c].originalCalls = 1
        /\ calls[c].originalReceived = <<[thisArg |-> "target", args |-> calls[c].args]>>
        /\ (calls[c].pc = "done" /\ ~calls[c].caught) =>
               /\ calls[c].outcome = [kind |-> "return", error |-> "", rethrown |-> FALSE,
                                      text |-> "original result"]
               /\ NoRecoveryEffects(c)
               /\ calls[c].response = NoResponseYet
               /\ calls[c].result = NoResult

\* one call returned the original's result, the other one went through a
\* recovery to its retry
C19_Witness ==
    /\ calls["c1"].mode = "wrapper" /\ calls["c1"].pc = "done" /\ ~calls["c1"].caught
    /\ calls["c1"].originalCalls = 1
    /\ calls["c2"].mode = "wrapper" /\ calls["c2"].pc = "retryBody"
    /\ calls["c2"].originalCalls = 1

\* the call has finished
Finished(c) == calls[c].pc \in {"done", "failed"}

\* the I/O operations the call started
IOCount(c) ==
    calls[c].originalCalls + Len(calls[c].judgeQueries)
        + (IF calls[c].job # NoJob THEN 1 ELSE 0) + Len(calls[c].retryRequests)

\* the I/O of a call is bounded, and a call that has not finished waits for
\* an I/O operation that can complete
C20_BoundedIO ==
    \A c \in Calls :
        /\ IOCount(c) <= 4
        /\ calls[c].pc = "original" => ENABLED OriginalSettles(c)
        /\ calls[c].pc = "judge" => ENABLED JudgeFetchSettles(c)
        /\ calls[c].pc = "judgeBody" => ENABLED JudgeBodySettles(c)
        /\ calls[c].pc = "signing" => ENABLED SignTypedDataSettles(c)
        /\ calls[c].pc \in {"judged", "signed"} => ENABLED AutoRecoverResumes(c)
        /\ calls[c].pc = "retrying" => ENABLED RetryFetchSettles(c)
        /\ calls[c].pc = "retryBody" => ENABLED RetryBodySettles(c)

C20_EventuallyFinishes ==
    \A c \in Calls : (calls[c].pc # "idle") ~> Finished(c)

(***************************************************************************)
(* C20: when every pending I/O operation (the original call, the advisory  *)
(* query, signing, the retry request) eventually completes, every          *)
(* invocation eventually finishes, in Done or in Failed, after a bounded   *)
(* number of I/O operations; a call that has not finished is waiting for   *)
(* one of its I/O operations.                                              *)
(***************************************************************************)
C20_Termination == []C20_BoundedIO /\ C20_EventuallyFinishes

\* a call finished after its original call, its signing and its retry
C20_Witness ==
    /\ calls["c1"].mode = "wrapper"
    /\ Finished("c1")
    /\ IOCount("c1") = 3
    /\ calls["c1"].response # NoResponseYet
====
